---- MODULE Spec2Model ----
(***************************************************************************)
(* TaskFlow: the user and task services (src/src/services) behind the      *)
(* FastAPI routes (src/src/api/routes.py), over the SQLAlchemy models of   *)
(* src/src/models on the SQLite engine of src/src/models/base.py.          *)
(*                                                                         *)
(* Encoding of Python values.  A column or a request field holds None,     *)
(* written <<>>, or a value v, written <<v>>.  A string whose length       *)
(* matters to bcrypt (a password) is the pair <<head, tail>>: its first 72 *)
(* bytes and what follows them ("" when it has at most 72 bytes).  A       *)
(* bcrypt digest is the triple <<"$2b$", salt, key>>.  A pydantic update   *)
(* object carries `set`, its __fields_set__, beside its fields.            *)
(*                                                                         *)
(* One request is one action: the handler runs on its own session, start   *)
(* to end, and the session is closed (rolled back) when it raises.         *)
(*                                                                         *)
(* Two requests interleave only between the service calls of a handler:    *)
(* each call runs its statements and its commit on the one SQLite file,    *)
(* which lets one writer in at a time.  A handler with a pre-check is then  *)
(* two steps, the check and the write, and `inflight` holds the requests   *)
(* between the two.                                                        *)
(*                                                                         *)
(* Time.  created_at is filled by SQLite's CURRENT_TIMESTAMP, which counts *)
(* whole seconds: `now` is that clock, and rows inserted within the same   *)
(* second carry the same created_at.  updated_at is filled from the same   *)
(* clock by each UPDATE of the row.                                        *)
(***************************************************************************)
EXTENDS Integers, Sequences, FiniteSets, TLC

VARIABLES
    users,       \* the rows of table "users"
    tasks,       \* the rows of table "tasks"
    registered,  \* history: user id -> the plaintext password it registered with
    last,        \* the outcome of the latest request
    scope,       \* the scope the requests of this run are drawn from
    now,         \* the clock of the database, in whole seconds
    inflight     \* per client, the request of it that is past its pre-check
                 \* and before its write; None when it has none

vars == <<users, tasks, registered, last, scope, now, inflight>>

(***************************************************************************)
(* Bounds of the model.                                                    *)
(***************************************************************************)
MaxUsers == 2
MaxTasks == 2
\* fields one partial update supplies at most
MaxUpdateFields == 1
\* the clock runs from 0 to MaxClock
MaxClock == 1
\* clients sending requests at the same time
MaxClients == 2

None == <<>>
Some(v) == <<v>>

Max(S) == CHOOSE m \in S : \A n \in S : n <= m
Min(a, b) == IF a <= b THEN a ELSE b

(***************************************************************************)
(* Storage: SQLite tables as declared by the models.                       *)
(***************************************************************************)
\* Mutant of NextId: the id taken from the number of rows, so that after a
\* delete it can be one a stored row has.
NextId_Count(table) == Cardinality(table) + 1

\* Integer primary key on SQLite: the rowid, one more than the largest in use.
NextId(table) == IF table = {} THEN 1 ELSE Max({r.id : r \in table}) + 1

NotNullFailed == "IntegrityError: NOT NULL constraint failed"
UniqueFailed == "IntegrityError: UNIQUE constraint failed"
IntegrityErrors == {NotNullFailed, UniqueFailed}

\* users: nullable=False on email, username, hashed_password
UsersNotNullOK(U) ==
    \A u \in U : /\ u.email # None
                 /\ u.username # None
                 /\ u.hashed_password # None

\* Mutant of UsersUniqueOK: the columns declared without unique=True.
UsersNoUnique(U) == \A u, v \in U : u.id = v.id => u = v

\* users: primary key, unique=True on email and on username
UsersUniqueOK(U) ==
    /\ \A u, v \in U : u.id = v.id => u = v
    /\ \A u, v \in U : u.email = v.email => u = v
    /\ \A u, v \in U : u.username = v.username => u = v

\* a query without ORDER BY: SQL leaves the order of its rows open
Orders(S) ==
    {s \in [1..Cardinality(S) -> S] :
        \A i, j \in 1..Cardinality(S) : s[i] = s[j] => i = j}

\* .offset(skip).limit(limit).all() over the ordered rows: SQLite reads a
\* negative OFFSET as 0 and a negative LIMIT as no limit
Window(rows, skip, limit) ==
    LET first == IF skip < 0 THEN 1 ELSE skip + 1
        end   == IF limit < 0 THEN Len(rows) ELSE Min(Len(rows), first + limit - 1)
    IN  SubSeq(rows, first, end)

\* what the commit of table U raises: "none" when SQLite accepts it
UsersViolation(U) ==
    IF ~UsersNotNullOK(U) THEN NotNullFailed
    ELSE IF ~UsersUniqueOK(U) THEN UniqueFailed
    ELSE "none"

\* Mutant of TasksViolation: Task.owner_id declared without nullable=False.
TasksViolation_OwnerNullable(T) ==
    IF \E t \in T : t.title = None \/ t.status = None
    THEN NotNullFailed
    ELSE IF \E s, t \in T : s.id = t.id /\ s # t THEN UniqueFailed
    ELSE "none"

\* Mutant of TasksViolation: Task.status declared without nullable=False.
TasksViolation_StatusNullable(T) ==
    IF \E t \in T : t.title = None \/ t.owner_id = None
    THEN NotNullFailed
    ELSE IF \E s, t \in T : s.id = t.id /\ s # t THEN UniqueFailed
    ELSE "none"

\* tasks: primary key and nullable=False on title, status, owner_id.  The
\* ForeignKey on owner_id is declared but the engine is created without
\* PRAGMA foreign_keys, so SQLite does not enforce it.
TasksViolation(T) ==
    IF \E t \in T : t.title = None \/ t.status = None \/ t.owner_id = None
    THEN NotNullFailed
    ELSE IF \E s, t \in T : s.id = t.id /\ s # t THEN UniqueFailed
    ELSE "none"

\* User.updated_at, as Task.updated_at below
UserFlush(old, new) ==
    IF new # old THEN [new EXCEPT !.updated_at = Some(now)] ELSE new

\* onupdate=func.now(): the flush emits an UPDATE for a row only when an
\* attribute of it holds another value than the one loaded, and the UPDATE
\* sets updated_at to the clock; a row assigned the values it had is not
\* written
TaskFlush(old, new) ==
    IF new # old THEN [new EXCEPT !.updated_at = Some(now)] ELSE new

(***************************************************************************)
(* Password Hasher: CryptContext(schemes=["bcrypt"]).                      *)
(***************************************************************************)
\* Mutant of pwd_context_hash: the password stored as it was submitted.
pwd_context_plaintext(password, salt) == password

\* bcrypt keys on the first 72 bytes of the password and salts every digest.
pwd_context_hash(password, salt) == <<"$2b$", salt, password[1]>>

pwd_context_verify(plain_password, hashed_password) ==
    pwd_context_hash(plain_password, hashed_password[2]) = hashed_password

(***************************************************************************)
(* UserService                                                             *)
(***************************************************************************)
\* query(...).filter(...).first(): None or the row, as a Python value
First(rows) == IF rows = {} THEN None ELSE Some(CHOOSE r \in rows : TRUE)

UserService_get_by_id(U, user_id) == First({u \in U : u.id = user_id})

UserService_get_by_email(U, email) == First({u \in U : u.email = email})

UserService_get_by_username(U, username) ==
    First({u \in U : u.username = username})

UserService_get_all(U, skip, limit) == {Window(s, skip, limit) : s \in Orders(U)}

UserService_create(U, user_data, salt) ==
    LET db_user == [id              |-> NextId(U),
                    email           |-> user_data.email,
                    username        |-> user_data.username,
                    full_name       |-> user_data.full_name,
                    hashed_password |-> pwd_context_hash(user_data.password, salt),
                    is_active       |-> Some(TRUE),
                    is_superuser    |-> Some(FALSE),
                    created_at      |-> now,
                    updated_at      |-> None]
    IN  IF UsersViolation(U \cup {db_user}) = "none"
        THEN [users |-> U \cup {db_user}, ret |-> Some(db_user), exc |-> "none"]
        ELSE [users |-> U, ret |-> None, exc |-> UsersViolation(U \cup {db_user})]

\* Mutant of UserSetattrs: user_data.dict() without exclude_unset, so every
\* field of the update object is assigned, the unset ones as None.
UserSetattrsReplace(db_user, user_data) ==
    [db_user EXCEPT
        !.email     = user_data.email,
        !.username  = user_data.username,
        !.full_name = user_data.full_name,
        !.is_active = user_data.is_active]

\* user_data.dict(exclude_unset=True) and the setattr loop over it
UserSetattrs(db_user, user_data) ==
    [db_user EXCEPT
        !.email     = IF "email" \in user_data.set THEN user_data.email ELSE @,
        !.username  = IF "username" \in user_data.set THEN user_data.username ELSE @,
        !.full_name = IF "full_name" \in user_data.set THEN user_data.full_name ELSE @,
        !.is_active = IF "is_active" \in user_data.set THEN user_data.is_active ELSE @]

\* Mutant of UserService_update: the commit wrapped in try/except, the
\* integrity error swallowed and None returned.
UserService_update_Swallow(U, user_id, user_data) ==
    LET found == UserService_get_by_id(U, user_id)
    IN  IF found = None
        THEN [users |-> U, ret |-> None, exc |-> "none"]
        ELSE LET db_user == UserFlush(found[1], UserSetattrs(found[1], user_data))
                 U2 == (U \ {found[1]}) \cup {db_user}
             IN  IF UsersViolation(U2) = "none"
                 THEN [users |-> U2, ret |-> Some(db_user), exc |-> "none"]
                 ELSE [users |-> U, ret |-> None, exc |-> "none"]

UserService_update(U, user_id, user_data) ==
    LET found == UserService_get_by_id(U, user_id)
    IN  IF found = None
        THEN [users |-> U, ret |-> None, exc |-> "none"]
        ELSE LET db_user == UserFlush(found[1], UserSetattrs(found[1], user_data))
                 U2 == (U \ {found[1]}) \cup {db_user}
             IN  IF UsersViolation(U2) = "none"
                 THEN [users |-> U2, ret |-> Some(db_user), exc |-> "none"]
                 ELSE [users |-> U, ret |-> None, exc |-> UsersViolation(U2)]

\* db.delete(db_user): User.tasks has no delete cascade, so the flush first
\* sets owner_id of the user's tasks to NULL, then deletes the user row.
UserService_delete(U, T, user_id) ==
    LET found == UserService_get_by_id(U, user_id)
    IN  IF found = None
        THEN [users |-> U, tasks |-> T, ret |-> Some(FALSE), exc |-> "none"]
        ELSE LET T2 == {IF t.owner_id = Some(user_id)
                        THEN TaskFlush(t, [t EXCEPT !.owner_id = None])
                        ELSE t : t \in T}
             IN  IF TasksViolation(T2) = "none"
                 THEN [users |-> U \ {found[1]}, tasks |-> T2,
                       ret |-> Some(TRUE), exc |-> "none"]
                 ELSE [users |-> U, tasks |-> T,
                       ret |-> None, exc |-> TasksViolation(T2)]

UserService_verify_password(plain_password, hashed_password) ==
    pwd_context_verify(plain_password, hashed_password)

UserService_authenticate(U, username, password) ==
    LET user == UserService_get_by_username(U, username)
    IN  IF user = None THEN None
        ELSE IF ~UserService_verify_password(password, user[1].hashed_password)
             THEN None
             ELSE user

(***************************************************************************)
(* TaskService                                                             *)
(***************************************************************************)
\* TaskStatus
Statuses == {"pending", "in_progress", "completed", "cancelled"}

TaskService_get_by_id(T, task_id) == First({t \in T : t.id = task_id})

\* order_by(Task.created_at.desc()): later seconds first, the rows of one
\* second in an order SQL leaves open
NewestFirst(S) ==
    {s \in Orders(S) :
        \A i, j \in 1..Len(s) : i < j => s[i].created_at >= s[j].created_at}

\* the rows of query.filter(owner).filter(status), the filter applied when
\* status_filter is not None (every TaskStatus is a non-empty str, so truthy)
OwnerMatches(T, owner_id, status_filter) ==
    {t \in T : /\ t.owner_id = Some(owner_id)
               /\ status_filter # None => t.status = status_filter}

\* Mutant of TaskService_get_by_owner: the total counted over the page.
TaskService_get_by_owner_PageTotal(T, owner_id, status_filter, skip, limit) ==
    LET query == OwnerMatches(T, owner_id, status_filter)
    IN  {[tasks |-> Window(s, skip, limit), total |-> Len(Window(s, skip, limit))] :
            s \in NewestFirst(query)}

\* the (tasks, total) pairs get_by_owner can return
TaskService_get_by_owner(T, owner_id, status_filter, skip, limit) ==
    LET query == OwnerMatches(T, owner_id, status_filter)
    IN  {[tasks |-> Window(s, skip, limit), total |-> Cardinality(query)] :
            s \in NewestFirst(query)}

\* Mutant of TaskService_create: the status taken from the column default of
\* an earlier revision (in_progress) instead of being set to PENDING.
TaskService_create_NotPending(T, task_data, owner_id) ==
    LET db_task == [id          |-> NextId(T),
                    title       |-> task_data.title,
                    description |-> task_data.description,
                    status      |-> Some("in_progress"),
                    priority    |-> task_data.priority,
                    owner_id    |-> Some(owner_id),
                    created_at  |-> now,
                    updated_at  |-> None,
                    due_date    |-> task_data.due_date]
    IN  [tasks |-> T \cup {db_task}, ret |-> Some(db_task), exc |-> "none"]

\* Task(**task_data.dict(), owner_id=owner_id, status=TaskStatus.PENDING);
\* created_at is the server default, the clock at the insert; updated_at has
\* no default and stays NULL until an UPDATE of the row
TaskService_create(T, task_data, owner_id) ==
    LET db_task == [id          |-> NextId(T),
                    title       |-> task_data.title,
                    description |-> task_data.description,
                    status      |-> Some("pending"),
                    priority    |-> task_data.priority,
                    owner_id    |-> Some(owner_id),
                    created_at  |-> now,
                    updated_at  |-> None,
                    due_date    |-> task_data.due_date]
    IN  IF TasksViolation(T \cup {db_task}) = "none"
        THEN [tasks |-> T \cup {db_task}, ret |-> Some(db_task), exc |-> "none"]
        ELSE [tasks |-> T, ret |-> None, exc |-> TasksViolation(T \cup {db_task})]

\* task_data.dict(exclude_unset=True) and the setattr loop over it
TaskSetattrs(db_task, task_data) ==
    [db_task EXCEPT
        !.title       = IF "title" \in task_data.set THEN task_data.title ELSE @,
        !.description = IF "description" \in task_data.set
                        THEN task_data.description ELSE @,
        !.status      = IF "status" \in task_data.set THEN task_data.status ELSE @,
        !.priority    = IF "priority" \in task_data.set THEN task_data.priority ELSE @,
        !.due_date    = IF "due_date" \in task_data.set THEN task_data.due_date ELSE @]

\* commit of one task row, and the refresh of it
TaskCommit(T, old, new) ==
    LET T2 == (T \ {old}) \cup {TaskFlush(old, new)}
    IN  IF TasksViolation(T2) = "none"
        THEN [tasks |-> T2, ret |-> Some(TaskFlush(old, new)), exc |-> "none"]
        ELSE [tasks |-> T, ret |-> None, exc |-> TasksViolation(T2)]

\* Mutant of TaskService_update: a transition graph enforced, a completed or
\* cancelled task keeping its status whatever the update supplies.
TaskService_update_Terminal(T, task_id, task_data) ==
    LET found == TaskService_get_by_id(T, task_id)
    IN  IF found = None
        THEN [tasks |-> T, ret |-> None, exc |-> "none"]
        ELSE IF found[1].status \in {Some("completed"), Some("cancelled")}
        THEN TaskCommit(T, found[1],
                        [TaskSetattrs(found[1], task_data)
                            EXCEPT !.status = found[1].status])
        ELSE TaskCommit(T, found[1], TaskSetattrs(found[1], task_data))

TaskService_update(T, task_id, task_data) ==
    LET found == TaskService_get_by_id(T, task_id)
    IN  IF found = None
        THEN [tasks |-> T, ret |-> None, exc |-> "none"]
        ELSE TaskCommit(T, found[1], TaskSetattrs(found[1], task_data))

TaskService_delete(T, task_id) ==
    LET found == TaskService_get_by_id(T, task_id)
    IN  IF found = None
        THEN [tasks |-> T, ret |-> Some(FALSE), exc |-> "none"]
        ELSE [tasks |-> T \ {found[1]}, ret |-> Some(TRUE), exc |-> "none"]

\* Mutant of TaskService_mark_completed: the `if not db_task` return left out,
\* so the assignment to None.status raises.
TaskService_mark_completed_NoCheck(T, task_id) ==
    LET found == TaskService_get_by_id(T, task_id)
    IN  IF found = None
        THEN [tasks |-> T, ret |-> None, exc |-> "AttributeError"]
        ELSE TaskCommit(T, found[1], [found[1] EXCEPT !.status = Some("completed")])

\* Mutant of TaskService_mark_completed: a cancelled task is left cancelled.
TaskService_mark_completed_Guarded(T, task_id) ==
    LET found == TaskService_get_by_id(T, task_id)
    IN  IF found = None
        THEN [tasks |-> T, ret |-> None, exc |-> "none"]
        ELSE IF found[1].status = Some("cancelled")
        THEN [tasks |-> T, ret |-> found, exc |-> "none"]
        ELSE TaskCommit(T, found[1], [found[1] EXCEPT !.status = Some("completed")])

\* Mutant of TaskService_mark_completed: the due date cleared on completion.
TaskService_mark_completed_ClearsDue(T, task_id) ==
    LET found == TaskService_get_by_id(T, task_id)
    IN  IF found = None
        THEN [tasks |-> T, ret |-> None, exc |-> "none"]
        ELSE TaskCommit(T, found[1], [found[1] EXCEPT !.status = Some("completed"),
                                                      !.due_date = None])

TaskService_mark_completed(T, task_id) ==
    LET found == TaskService_get_by_id(T, task_id)
    IN  IF found = None
        THEN [tasks |-> T, ret |-> None, exc |-> "none"]
        ELSE TaskCommit(T, found[1], [found[1] EXCEPT !.status = Some("completed")])

\* Mutant of TaskService_get_stats: the filter on Task.owner_id left out.
TaskService_get_stats_AllOwners(T, owner_id) ==
    [status \in Statuses |-> Cardinality({t \in T : t.status = Some(status)})]

\* the rows of the GROUP BY status query, then the zero-filled dict
TaskService_get_stats(T, owner_id) ==
    LET owned   == {t \in T : t.owner_id = Some(owner_id)}
        results == {<<st, Cardinality({t \in owned : t.status = st})>> :
                        st \in {t.status : t \in owned}}
    IN  [status \in Statuses |->
            IF \E r \in results : r[1] = Some(status)
            THEN (CHOOSE r \in results : r[1] = Some(status))[2]
            ELSE 0]

(***************************************************************************)
(* Response schemas (src/src/api/schemas.py)                               *)
(***************************************************************************)
\* UserInDB.from_orm(user_obj): is_active and is_superuser are required bools
UserInDBValid(user_obj) ==
    /\ user_obj.email # None
    /\ user_obj.username # None
    /\ user_obj.is_active # None
    /\ user_obj.is_superuser # None

\* Mutant of user_to_response: the row returned with all its columns.
user_to_response_AllColumns(user_obj) == user_obj

\* the fields of UserInDB: hashed_password is not one of them
user_to_response(user_obj) ==
    [id           |-> user_obj.id,
     email        |-> user_obj.email,
     username     |-> user_obj.username,
     full_name    |-> user_obj.full_name,
     is_active    |-> user_obj.is_active,
     is_superuser |-> user_obj.is_superuser,
     created_at   |-> user_obj.created_at,
     updated_at   |-> user_obj.updated_at]

MinPriority == 1
MaxPriority == 5

\* TaskInDB.from_orm(task_obj): priority is a required int with ge=1, le=5
TaskInDBValid(task_obj) ==
    /\ task_obj.title # None
    /\ task_obj.status # None
    /\ task_obj.owner_id # None
    /\ task_obj.priority # None
    /\ task_obj.priority[1] >= MinPriority
    /\ task_obj.priority[1] <= MaxPriority

task_to_response(task_obj) ==
    [id          |-> task_obj.id,
     title       |-> task_obj.title,
     description |-> task_obj.description,
     status      |-> task_obj.status,
     priority    |-> task_obj.priority,
     owner_id    |-> task_obj.owner_id,
     created_at  |-> task_obj.created_at,
     updated_at  |-> task_obj.updated_at,
     due_date    |-> task_obj.due_date]

(***************************************************************************)
(* Routes (src/src/api/routes.py): each yields the tables after the        *)
(* request and its outcome.  code is the HTTP status, 500 when the handler *)
(* raised something that is no HTTPException (exc names it); ret is what   *)
(* the last service call returned; calls lists the service calls made;     *)
(* args holds the arguments of a direct service call, of a list request    *)
(* and of an update_task request; at is the clock at the request.          *)
(***************************************************************************)
Outcome(U, T, op, code, detail, body, ret, exc, calls) ==
    [users |-> U, tasks |-> T,
     last  |-> [op |-> op, code |-> code, detail |-> detail, body |-> body,
                ret |-> ret, exc |-> exc, calls |-> calls, args |-> <<>>,
                at |-> now]]

\* return user_to_response(db_user), which raises when from_orm does not validate
UserReply(U, T, op, code, db_user, calls) ==
    IF UserInDBValid(db_user)
    THEN Outcome(U, T, op, code, "", Some(user_to_response(db_user)),
                 Some(db_user), "none", calls)
    ELSE Outcome(U, T, op, 500, "", None, Some(db_user), "ValidationError", calls)

TaskReply(U, T, op, code, db_task, calls) ==
    IF TaskInDBValid(db_task)
    THEN Outcome(U, T, op, code, "", Some(task_to_response(db_task)),
                 Some(db_task), "none", calls)
    ELSE Outcome(U, T, op, 500, "", None, Some(db_task), "ValidationError", calls)

\* Mutant of create_user_route: the email pre-check left out.
create_user_route_NoEmailCheck(U, T, user, salt) ==
    IF UserService_get_by_username(U, user.username) # None
    THEN Outcome(U, T, "create_user", 400, "Username already taken", None,
                 UserService_get_by_username(U, user.username), "none",
                 <<"get_by_username">>)
    ELSE LET r == UserService_create(U, user, salt)
             calls == <<"get_by_username", "create">>
         IN  IF r.exc # "none"
             THEN Outcome(r.users, T, "create_user", 500, "", None, None, r.exc, calls)
             ELSE UserReply(r.users, T, "create_user", 201, r.ret[1], calls)

create_user_route(U, T, user, salt) ==
    IF UserService_get_by_email(U, user.email) # None
    THEN Outcome(U, T, "create_user", 400, "Email already registered", None,
                 UserService_get_by_email(U, user.email), "none",
                 <<"get_by_email">>)
    ELSE IF UserService_get_by_username(U, user.username) # None
    THEN Outcome(U, T, "create_user", 400, "Username already taken", None,
                 UserService_get_by_username(U, user.username), "none",
                 <<"get_by_email", "get_by_username">>)
    ELSE LET r == UserService_create(U, user, salt)
             calls == <<"get_by_email", "get_by_username", "create">>
         IN  IF r.exc # "none"
             THEN Outcome(r.users, T, "create_user", 500, "", None, None, r.exc, calls)
             ELSE UserReply(r.users, T, "create_user", 201, r.ret[1], calls)

\* create_user up to its call of UserService.create: the 400 answer, or
\* None when both pre-checks pass
create_user_check(U, T, user) ==
    IF UserService_get_by_email(U, user.email) # None
    THEN Some(Outcome(U, T, "create_user", 400, "Email already registered", None,
                      UserService_get_by_email(U, user.email), "none",
                      <<"get_by_email">>))
    ELSE IF UserService_get_by_username(U, user.username) # None
    THEN Some(Outcome(U, T, "create_user", 400, "Username already taken", None,
                      UserService_get_by_username(U, user.username), "none",
                      <<"get_by_email", "get_by_username">>))
    ELSE None

\* create_user from its call of UserService.create on
create_user_write(U, T, user, salt) ==
    LET r == UserService_create(U, user, salt)
        calls == <<"get_by_email", "get_by_username", "create">>
    IN  IF r.exc # "none"
        THEN Outcome(r.users, T, "create_user", 500, "", None, None, r.exc, calls)
        ELSE UserReply(r.users, T, "create_user", 201, r.ret[1], calls)

get_user_route(U, T, user_id) ==
    LET user == UserService_get_by_id(U, user_id)
    IN  IF user = None
        THEN Outcome(U, T, "get_user", 404, "User not found", None, None, "none",
                     <<"get_by_id">>)
        ELSE UserReply(U, T, "get_user", 200, user[1], <<"get_by_id">>)

\* the responses list_users can give: [user_to_response(u) for u in users]
list_users_route(U, T, skip, limit) ==
    {IF \A i \in 1..Len(rows) : UserInDBValid(rows[i])
     THEN Outcome(U, T, "list_users", 200, "",
                  Some([i \in 1..Len(rows) |-> user_to_response(rows[i])]),
                  Some(rows), "none", <<"get_all">>)
     ELSE Outcome(U, T, "list_users", 500, "", None, Some(rows),
                  "ValidationError", <<"get_all">>) :
        rows \in UserService_get_all(U, skip, limit)}

update_user_route(U, T, user_id, user_update) ==
    LET r == UserService_update(U, user_id, user_update)
    IN  IF r.exc # "none"
        THEN Outcome(r.users, T, "update_user", 500, "", None, None, r.exc, <<"update">>)
        ELSE IF r.ret = None
        THEN Outcome(r.users, T, "update_user", 404, "User not found", None, None,
                     "none", <<"update">>)
        ELSE UserReply(r.users, T, "update_user", 200, r.ret[1], <<"update">>)

delete_user_route(U, T, user_id) ==
    LET r == UserService_delete(U, T, user_id)
    IN  IF r.exc # "none"
        THEN Outcome(r.users, r.tasks, "delete_user", 500, "", None, None, r.exc,
                     <<"delete">>)
        ELSE IF r.ret = Some(FALSE)
        THEN Outcome(r.users, r.tasks, "delete_user", 404, "User not found", None,
                     r.ret, "none", <<"delete">>)
        ELSE Outcome(r.users, r.tasks, "delete_user", 204, "", None, r.ret, "none",
                     <<"delete">>)

\* Mutant of create_task_route: the owner's existence not checked.
create_task_route_NoUserCheck(U, T, user_id, task) ==
    LET r == TaskService_create(T, task, user_id)
        calls == <<"create">>
    IN  IF r.exc # "none"
        THEN Outcome(U, r.tasks, "create_task", 500, "", None, None, r.exc, calls)
        ELSE TaskReply(U, r.tasks, "create_task", 201, r.ret[1], calls)

create_task_route(U, T, user_id, task) ==
    IF UserService_get_by_id(U, user_id) = None
    THEN Outcome(U, T, "create_task", 404, "User not found", None, None, "none",
                 <<"get_by_id">>)
    ELSE LET r == TaskService_create(T, task, user_id)
             calls == <<"get_by_id", "create">>
         IN  IF r.exc # "none"
             THEN Outcome(U, r.tasks, "create_task", 500, "", None, None, r.exc, calls)
             ELSE TaskReply(U, r.tasks, "create_task", 201, r.ret[1], calls)

\* create_task up to its call of TaskService.create: the 404 answer, or None
\* when the user is found
create_task_check(U, T, user_id) ==
    IF UserService_get_by_id(U, user_id) = None
    THEN Some(Outcome(U, T, "create_task", 404, "User not found", None, None,
                      "none", <<"get_by_id">>))
    ELSE None

\* create_task from its call of TaskService.create on
create_task_write(U, T, user_id, task) ==
    LET r == TaskService_create(T, task, user_id)
        calls == <<"get_by_id", "create">>
    IN  IF r.exc # "none"
        THEN Outcome(U, r.tasks, "create_task", 500, "", None, None, r.exc, calls)
        ELSE TaskReply(U, r.tasks, "create_task", 201, r.ret[1], calls)

\* the responses list_user_tasks can give, skip being (page - 1) * per_page
list_user_tasks_route(U, T, user_id, status_filter, page, per_page) ==
    IF UserService_get_by_id(U, user_id) = None
    THEN {Outcome(U, T, "list_user_tasks", 404, "User not found", None, None,
                  "none", <<"get_by_id">>)}
    ELSE {IF \A i \in 1..Len(r.tasks) : TaskInDBValid(r.tasks[i])
          THEN Outcome(U, T, "list_user_tasks", 200, "",
                       Some([tasks    |-> [i \in 1..Len(r.tasks) |->
                                              task_to_response(r.tasks[i])],
                             total    |-> r.total,
                             page     |-> page,
                             per_page |-> per_page]),
                       Some(r), "none", <<"get_by_id", "get_by_owner">>)
          ELSE Outcome(U, T, "list_user_tasks", 500, "", None, Some(r),
                       "ValidationError", <<"get_by_id", "get_by_owner">>) :
            r \in TaskService_get_by_owner(T, user_id, status_filter,
                                           (page - 1) * per_page, per_page)}

get_task_route(U, T, task_id) ==
    LET task == TaskService_get_by_id(T, task_id)
    IN  IF task = None
        THEN Outcome(U, T, "get_task", 404, "Task not found", None, None, "none",
                     <<"get_by_id">>)
        ELSE TaskReply(U, T, "get_task", 200, task[1], <<"get_by_id">>)

update_task_route(U, T, task_id, task_update) ==
    LET r == TaskService_update(T, task_id, task_update)
    IN  IF r.exc # "none"
        THEN Outcome(U, r.tasks, "update_task", 500, "", None, None, r.exc, <<"update">>)
        ELSE IF r.ret = None
        THEN Outcome(U, r.tasks, "update_task", 404, "Task not found", None, None,
                     "none", <<"update">>)
        ELSE TaskReply(U, r.tasks, "update_task", 200, r.ret[1], <<"update">>)

delete_task_route(U, T, task_id) ==
    LET r == TaskService_delete(T, task_id)
    IN  IF r.ret = Some(FALSE)
        THEN Outcome(U, r.tasks, "delete_task", 404, "Task not found", None, r.ret,
                     "none", <<"delete">>)
        ELSE Outcome(U, r.tasks, "delete_task", 204, "", None, r.ret, "none",
                     <<"delete">>)

complete_task_route(U, T, task_id) ==
    LET r == TaskService_mark_completed(T, task_id)
    IN  IF r.exc # "none"
        THEN Outcome(U, r.tasks, "complete_task", 500, "", None, None, r.exc,
                     <<"mark_completed">>)
        ELSE IF r.ret = None
        THEN Outcome(U, r.tasks, "complete_task", 404, "Task not found", None, None,
                     "none", <<"mark_completed">>)
        ELSE TaskReply(U, r.tasks, "complete_task", 200, r.ret[1],
                       <<"mark_completed">>)

(***************************************************************************)
(* Requests: the values the handlers are called with.                      *)
(***************************************************************************)
\* ids are handed out up to MaxId; MaxId + 1 is an id no row ever has
MaxId == 2
Ids == 1..(MaxId + 1)

Emails == {"a@x.com", "b@x.com"}
Usernames == {"ann", "bob"}
FullNames == {None, Some("Ann")}
\* two passwords that differ within their first 72 bytes, and one that
\* differs from the first only after them
Passwords == {<<"pw1", "">>, <<"pw1", "x">>, <<"pw2", "">>}
Salts == {"s1", "s2"}
Titles == {"T1", "T2"}
Descriptions == {None, Some("d")}
DueDates == {None, Some("2030-01-01")}
Priorities == {MinPriority, MaxPriority}

Opt(S) == {None} \cup {Some(v) : v \in S}
Req(S) == {Some(v) : v \in S}

\* list_users: skip ge=0, limit ge=1; list_user_tasks: page ge=1, per_page ge=1
Skips == 0..1
Limits == 1..MaxUsers
Pages == 1..2
PerPages == 1..MaxTasks
StatusFilters == Opt(Statuses)

Clients == 1..MaxClients

\* UserCreate: email, username and password are required
AllUserCreates ==
    [email : Req(Emails), username : Req(Usernames), full_name : FullNames,
     password : Passwords]

UserUpdateFields == {"email", "username", "full_name", "is_active"}

\* UserUpdate: every field Optional with default None
AllUserUpdates ==
    {u \in [set : SUBSET UserUpdateFields, email : Opt(Emails),
            username : Opt(Usernames), full_name : FullNames,
            is_active : Opt(BOOLEAN)] :
        /\ Cardinality(u.set) <= MaxUpdateFields
        /\ \A f \in UserUpdateFields \ u.set : u[f] = None}

\* TaskCreate: title required, priority an int in 1..5 (default 1)
AllTaskCreates ==
    [title : Req(Titles), description : Descriptions, priority : Req(Priorities),
     due_date : DueDates]

TaskUpdateFields == {"title", "description", "status", "priority", "due_date"}

\* TaskUpdate: every field Optional with default None
AllTaskUpdates ==
    {u \in [set : SUBSET TaskUpdateFields, title : Opt(Titles),
            description : Descriptions, status : Opt(Statuses),
            priority : Opt(Priorities), due_date : DueDates] :
        /\ Cardinality(u.set) <= MaxUpdateFields
        /\ \A f \in TaskUpdateFields \ u.set : u[f] = None}

(***************************************************************************)
(* The requests of one run.  A run draws its requests from one of these    *)
(* scopes, each varying some of the fields and keeping the others plain:   *)
(*   users     user create/get/update/delete over every user field           *)
(*   auth      registration and authenticate over passwords and salts        *)
(*   owners    two users and their tasks: creation, completion, deletion     *)
(*   tasks     one user's tasks over title and description                 *)
(*   priority  one user's tasks over priority, and their completion        *)
(*   status    one user's tasks over status and due_date                   *)
(*   listing   one user's tasks over the second they were created in, and  *)
(*             the pages of their list                                     *)
(*   race_users  registrations of several clients, interleaved             *)
(*   race_tasks  task creations of several clients for one user,           *)
(*               interleaved with the deletion of that user                *)
(***************************************************************************)
Scopes ==
    {"users", "auth", "owners", "tasks", "priority", "status", "listing",
     "race_users", "race_tasks"}

PlainUser(u) ==
    /\ u.full_name = None
    /\ u.password = <<"pw1", "">>
    /\ <<u.email, u.username>> \in {<<Some("a@x.com"), Some("ann")>>,
                                    <<Some("b@x.com"), Some("bob")>>}

PlainTask(t) ==
    /\ t.title = Some("T1")
    /\ t.description = None
    /\ t.priority = Some(MinPriority)
    /\ t.due_date = None

UserCreatesOf(sc) ==
    CASE sc = "users"  -> {u \in AllUserCreates : u.password = <<"pw1", "">>}
      [] sc = "auth"   -> {u \in AllUserCreates :
                              PlainUser([u EXCEPT !.password = <<"pw1", "">>])}
      [] sc = "owners" -> {u \in AllUserCreates : PlainUser(u)}
      [] sc = "race_users" -> {u \in AllUserCreates :
                                  /\ u.full_name = None
                                  /\ u.password = <<"pw1", "">>}
      [] OTHER         -> {u \in AllUserCreates :
                              PlainUser(u) /\ u.email = Some("a@x.com")}

SaltsOf(sc) == IF sc = "auth" THEN Salts ELSE {"s1"}

UserUpdatesOf(sc) == IF sc = "users" THEN AllUserUpdates ELSE {}

TaskCreatesOf(sc) ==
    CASE sc = "tasks"    -> {t \in AllTaskCreates :
                                PlainTask([t EXCEPT !.title = Some("T1"),
                                                    !.description = None])}
      [] sc = "priority" -> {t \in AllTaskCreates :
                                PlainTask([t EXCEPT !.priority =
                                                        Some(MinPriority)])}
      [] sc = "status"   -> {t \in AllTaskCreates :
                                PlainTask([t EXCEPT !.due_date = None])}
      [] sc \in {"owners", "listing", "race_tasks"} ->
                            {t \in AllTaskCreates : PlainTask(t)}
      [] OTHER           -> {}

TaskUpdatesOf(sc) ==
    CASE sc = "tasks"    -> {u \in AllTaskUpdates :
                                u.set \subseteq {"title", "description"}}
      [] sc = "priority" -> {u \in AllTaskUpdates : u.set \subseteq {"priority"}}
      [] sc = "status"   -> {u \in AllTaskUpdates :
                                u.set \subseteq {"status", "due_date"}}
      [] OTHER           -> {}

(***************************************************************************)
(* The state machine                                                       *)
(***************************************************************************)
NoRequest ==
    [op |-> "none", code |-> 0, detail |-> "", body |-> None, ret |-> None,
     exc |-> "none", calls |-> <<>>, args |-> <<>>, at |-> 0]

Init ==
    /\ users = {}
    /\ tasks = {}
    /\ registered = <<>>
    /\ last = NoRequest
    /\ scope \in Scopes
    /\ now = 0
    /\ inflight = [c \in Clients |-> None]

\* the tables and the outcome of a request; a new user id is entered in
\* `registered` with `password`, a deleted one leaves it
Commit(o, password) ==
    /\ users' = o.users
    /\ tasks' = o.tasks
    /\ last' = o.last
    /\ registered' = [id \in {u.id : u \in o.users} |->
                        IF id \in DOMAIN registered THEN registered[id]
                        ELSE password]
    /\ UNCHANGED <<scope, now>>

\* a request handled start to end
Apply(o, password) == Commit(o, password) /\ UNCHANGED inflight

create_user ==
    \E user \in UserCreatesOf(scope), salt \in SaltsOf(scope) :
        /\ Cardinality(users) < MaxUsers
        /\ NextId(users) <= MaxId
        /\ Apply(create_user_route(users, tasks, user, salt), user.password)

\* a client's create_user runs its pre-checks: it answers 400, or goes on
create_user_begin ==
    /\ scope = "race_users"
    /\ \E c \in Clients, user \in UserCreatesOf(scope), salt \in SaltsOf(scope) :
        /\ inflight[c] = None
        /\ LET answer == create_user_check(users, tasks, user)
           IN  IF answer = None
               THEN /\ inflight' = [inflight EXCEPT ![c] =
                            [op |-> "create_user", user |-> user, salt |-> salt]]
                    /\ UNCHANGED <<users, tasks, registered, last, scope, now>>
               ELSE Apply([answer[1] EXCEPT !.last.op = "create_user_begin"], <<>>)

\* a client's create_user, past its pre-checks, calls UserService.create
create_user_end ==
    \E c \in Clients :
        /\ inflight[c] # None
        /\ inflight[c].op = "create_user"
        /\ Cardinality(users) < MaxUsers
        /\ NextId(users) <= MaxId
        /\ Commit([create_user_write(users, tasks, inflight[c].user, inflight[c].salt)
                      EXCEPT !.last.op = "create_user_end"],
                  inflight[c].user.password)
        /\ inflight' = [inflight EXCEPT ![c] = None]

get_user ==
    /\ scope = "users"
    /\ \E user_id \in Ids : Apply(get_user_route(users, tasks, user_id), <<>>)

list_users ==
    /\ scope = "users"
    /\ \E skip \in Skips, limit \in Limits :
        \E o \in list_users_route(users, tasks, skip, limit) :
            Apply([o EXCEPT !.last.args = <<skip, limit>>], <<>>)

update_user ==
    \E user_id \in Ids, user_update \in UserUpdatesOf(scope) :
        Apply(update_user_route(users, tasks, user_id, user_update), <<>>)

delete_user ==
    \E user_id \in Ids : Apply(delete_user_route(users, tasks, user_id), <<>>)

\* UserService.authenticate has no route: it is called as the tests call it
authenticate ==
    /\ scope = "auth"
    /\ \E username \in Req(Usernames), password \in Passwords :
        LET user == UserService_authenticate(users, username, password)
            o == Outcome(users, tasks, "authenticate", 0, "", None, user, "none",
                         <<"get_by_username">>)
        IN  Apply([o EXCEPT !.last.args = <<username, password>>], <<>>)

create_task ==
    \E user_id \in Ids, task \in TaskCreatesOf(scope) :
        /\ Cardinality(tasks) < MaxTasks
        /\ NextId(tasks) <= MaxId
        /\ Apply(create_task_route(users, tasks, user_id, task), <<>>)

\* a client's create_task looks the user up: it answers 404, or goes on
create_task_begin ==
    /\ scope = "race_tasks"
    /\ \E c \in Clients, user_id \in Ids, task \in TaskCreatesOf(scope) :
        /\ inflight[c] = None
        /\ LET answer == create_task_check(users, tasks, user_id)
           IN  IF answer = None
               THEN /\ inflight' = [inflight EXCEPT ![c] =
                            [op |-> "create_task", user_id |-> user_id, task |-> task]]
                    /\ UNCHANGED <<users, tasks, registered, last, scope, now>>
               ELSE Apply([answer[1] EXCEPT !.last.op = "create_task_begin"], <<>>)

\* a client's create_task, past its look-up, calls TaskService.create
create_task_end ==
    \E c \in Clients :
        /\ inflight[c] # None
        /\ inflight[c].op = "create_task"
        /\ Cardinality(tasks) < MaxTasks
        /\ NextId(tasks) <= MaxId
        /\ Commit([create_task_write(users, tasks, inflight[c].user_id,
                                      inflight[c].task)
                      EXCEPT !.last.op = "create_task_end"], <<>>)
        /\ inflight' = [inflight EXCEPT ![c] = None]

get_task ==
    /\ scope \in {"owners", "tasks", "priority", "status"}
    /\ \E task_id \in Ids : Apply(get_task_route(users, tasks, task_id), <<>>)

update_task ==
    \E task_id \in Ids, task_update \in TaskUpdatesOf(scope) :
        Apply([update_task_route(users, tasks, task_id, task_update)
                  EXCEPT !.last.args = <<task_id, task_update>>], <<>>)

\* a listing run asks for every page of the open and of the completed tasks
list_user_tasks ==
    /\ scope = "listing"
    /\ \E user_id \in Ids, status_filter \in {None, Some("completed")},
          page \in Pages, per_page \in PerPages :
        \E o \in list_user_tasks_route(users, tasks, user_id, status_filter,
                                       page, per_page) :
            Apply([o EXCEPT !.last.args =
                            <<user_id, status_filter, page, per_page>>], <<>>)

\* TaskService.get_stats has no route: it is called as the tests call it
get_stats ==
    /\ scope = "owners"
    /\ \E owner_id \in Ids :
        Apply([Outcome(users, tasks, "get_stats", 0, "", None,
                       Some(TaskService_get_stats(tasks, owner_id)), "none",
                       <<"get_stats">>)
                  EXCEPT !.last.args = <<owner_id>>], <<>>)

\* a second of the database clock passes
Tick ==
    /\ scope = "listing"
    /\ now < MaxClock
    /\ now' = now + 1
    /\ UNCHANGED <<users, tasks, registered, last, scope, inflight>>

delete_task ==
    /\ scope \in {"owners", "tasks", "priority", "status", "listing"}
    /\ \E task_id \in Ids : Apply(delete_task_route(users, tasks, task_id), <<>>)

complete_task ==
    /\ scope \in {"owners", "priority", "status", "listing"}
    /\ \E task_id \in Ids : Apply(complete_task_route(users, tasks, task_id), <<>>)

Next ==
    \/ create_user
    \/ create_user_begin
    \/ create_user_end
    \/ get_user
    \/ list_users
    \/ update_user
    \/ delete_user
    \/ authenticate
    \/ create_task
    \/ create_task_begin
    \/ create_task_end
    \/ get_task
    \/ list_user_tasks
    \/ get_stats
    \/ Tick
    \/ update_task
    \/ delete_task
    \/ complete_task

Spec == Init /\ [][Next]_vars

(***************************************************************************)
(* Properties                                                              *)
(***************************************************************************)
Called(o, name) == \E i \in DOMAIN o.last.calls : o.last.calls[i] = name

EmailTaken(email) == \E u \in users : u.email = email
UsernameTaken(username) == \E u \in users : u.username = username

\* C1: in every reachable state no two stored users share an email and no two
\* share a username, also after an update that sets a user's email or
\* username to a value another user holds.
C1_UniqueEmailAndUsername ==
    \A u, v \in users :
        u # v => /\ u.email # v.email
                 /\ u.username # v.username

\* C1 witness: an update asked for an email or username that another user
\* holds, and the storage turned it down.
C1_Witness ==
    /\ last.op = "update_user"
    /\ last.exc = UniqueFailed
    /\ Cardinality(users) = 2

\* C2: create_user with an email that a stored user has answers 400 "Email
\* already registered", and with a free email but a username in use 400
\* "Username already taken"; in both cases UserService.create is not called
\* and the stored users are unchanged.
C2_DuplicateRejected ==
    \A user \in AllUserCreates, salt \in Salts :
        LET o == create_user_route(users, tasks, user, salt)
        IN  /\ EmailTaken(user.email) =>
                /\ o.last.code = 400
                /\ o.last.detail = "Email already registered"
                /\ ~Called(o, "create")
                /\ o.users = users
            /\ (~EmailTaken(user.email) /\ UsernameTaken(user.username)) =>
                /\ o.last.code = 400
                /\ o.last.detail = "Username already taken"
                /\ ~Called(o, "create")
                /\ o.users = users

\* C2 witness: a create_user request was turned down for its email.
C2_Witness ==
    /\ last.op = "create_user"
    /\ last.code = 400
    /\ last.detail = "Email already registered"
    /\ users # {}

\* C3: for every registration whose email and username are unused,
\* UserService.create succeeds and stores exactly one new user, with the
\* submitted email, username and full_name, whose hashed_password is not the
\* submitted password; and no stored user's hashed_password is the password
\* it registered with.
C3_CreateStoresHashedUser ==
    /\ \A user \in AllUserCreates, salt \in Salts :
        (~EmailTaken(user.email) /\ ~UsernameTaken(user.username)) =>
            LET r == UserService_create(users, user, salt)
            IN  /\ r.exc = "none"
                /\ r.ret # None
                /\ r.ret[1] \notin users
                /\ r.users = users \cup {r.ret[1]}
                /\ r.ret[1].email = user.email
                /\ r.ret[1].username = user.username
                /\ r.ret[1].full_name = user.full_name
                /\ r.ret[1].hashed_password # user.password
    /\ \A u \in users : u.hashed_password # registered[u.id]

\* C3 witness: a registration with a password longer than 72 bytes was stored.
C3_Witness ==
    /\ last.op = "create_user"
    /\ last.code = 201
    /\ \E u \in users : Some(u) = last.ret /\ registered[u.id] = <<"pw1", "x">>

\* C4: UserService.authenticate(username, password) returns the stored user
\* with that username exactly when there is one and password is the password
\* it registered with; otherwise it returns None (the same for an unknown
\* username and for any other password).
C4_AuthenticateExactlyTheRegisteredPassword ==
    last.op = "authenticate" =>
        LET username == last.args[1]
            password == last.args[2]
            match == {u \in users : /\ u.username = username
                                    /\ registered[u.id] = password}
        IN  last.ret = IF match = {} THEN None ELSE Some(CHOOSE u \in match : TRUE)

UserExists(id) == \E u \in users : u.id = id
TaskExists(id) == \E t \in tasks : t.id = id

\* the row `new` is `old` with the fields the update supplies set to the
\* supplied values and every other column as it was
UserMerged(old, upd, new) ==
    /\ \A f \in UserUpdateFields : new[f] = IF f \in upd.set THEN upd[f] ELSE old[f]
    /\ new.id = old.id
    /\ new.hashed_password = old.hashed_password
    /\ new.is_superuser = old.is_superuser
    /\ new.created_at = old.created_at

TaskMerged(old, upd, new) ==
    /\ \A f \in TaskUpdateFields : new[f] = IF f \in upd.set THEN upd[f] ELSE old[f]
    /\ new.id = old.id
    /\ new.owner_id = old.owner_id
    /\ new.created_at = old.created_at

\* the write the storage turns down: a supplied email or username that is
\* null or held by another user; a supplied title or status that is null
UserWriteRejected(old, upd) ==
    \/ /\ "email" \in upd.set
       /\ upd.email = None \/ \E v \in users \ {old} : v.email = upd.email
    \/ /\ "username" \in upd.set
       /\ upd.username = None \/ \E v \in users \ {old} : v.username = upd.username

TaskWriteRejected(old, upd) ==
    \/ "title" \in upd.set /\ upd.title = None
    \/ "status" \in upd.set /\ upd.status = None

\* C5 as stated: every update on an existing id returns the row with exactly
\* the supplied fields changed, every other field and every other row as before.
C5_UpdateAlwaysMerges ==
    /\ \A u \in users, upd \in AllUserUpdates :
        LET r == UserService_update(users, u.id, upd)
        IN  /\ r.ret # None
            /\ UserMerged(u, upd, r.ret[1])
            /\ r.users = (users \ {u}) \cup {r.ret[1]}
    /\ \A t \in tasks, upd \in AllTaskUpdates :
        LET r == TaskService_update(tasks, t.id, upd)
        IN  /\ r.ret # None
            /\ TaskMerged(t, upd, r.ret[1])
            /\ r.tasks = (tasks \ {t}) \cup {r.ret[1]}

\* C5 as amended: an update on an existing id that the storage accepts returns
\* the row with exactly the supplied fields changed, every other field and
\* every other row as before (an empty update changes nothing); an update the
\* storage turns down raises an integrity error and changes no row.
C5_UpdateMergesOrIsRejected ==
    /\ \A u \in users, upd \in AllUserUpdates :
        LET r == UserService_update(users, u.id, upd)
        IN  IF UserWriteRejected(u, upd)
            THEN /\ r.exc \in IntegrityErrors
                 /\ r.users = users
            ELSE /\ r.exc = "none"
                 /\ r.ret # None
                 /\ UserMerged(u, upd, r.ret[1])
                 /\ r.users = (users \ {u}) \cup {r.ret[1]}
                 /\ upd.set = {} => r.users = users
    /\ \A t \in tasks, upd \in AllTaskUpdates :
        LET r == TaskService_update(tasks, t.id, upd)
        IN  IF TaskWriteRejected(t, upd)
            THEN /\ r.exc \in IntegrityErrors
                 /\ r.tasks = tasks
            ELSE /\ r.exc = "none"
                 /\ r.ret # None
                 /\ TaskMerged(t, upd, r.ret[1])
                 /\ r.tasks = (tasks \ {t}) \cup {r.ret[1]}
                 /\ upd.set = {} => r.tasks = tasks

\* C5 witness: an update of one user went through beside another user, the
\* updated row holding values that two earlier updates gave it.
C5_Witness ==
    /\ last.op = "update_user"
    /\ last.code = 200
    /\ Cardinality(users) = 2
    /\ last.ret[1].full_name # None
    /\ last.ret[1].is_active = Some(FALSE)

\* C6: get_by_id, update, delete and mark_completed with an id that no stored
\* row has return None (False for delete) without raising and leave users
\* and tasks as they are; the routes answer 404.
C6_NotFoundIsAbsent ==
    \A id \in Ids :
        /\ ~UserExists(id) =>
            /\ UserService_get_by_id(users, id) = None
            /\ get_user_route(users, tasks, id).last.code = 404
            /\ \A upd \in AllUserUpdates :
                /\ UserService_update(users, id, upd) =
                       [users |-> users, ret |-> None, exc |-> "none"]
                /\ LET o == update_user_route(users, tasks, id, upd)
                   IN  o.last.code = 404 /\ o.users = users /\ o.tasks = tasks
            /\ UserService_delete(users, tasks, id) =
                   [users |-> users, tasks |-> tasks, ret |-> Some(FALSE),
                    exc |-> "none"]
            /\ LET o == delete_user_route(users, tasks, id)
               IN  o.last.code = 404 /\ o.users = users /\ o.tasks = tasks
        /\ ~TaskExists(id) =>
            /\ TaskService_get_by_id(tasks, id) = None
            /\ get_task_route(users, tasks, id).last.code = 404
            /\ \A upd \in AllTaskUpdates :
                /\ TaskService_update(tasks, id, upd) =
                       [tasks |-> tasks, ret |-> None, exc |-> "none"]
                /\ LET o == update_task_route(users, tasks, id, upd)
                   IN  o.last.code = 404 /\ o.users = users /\ o.tasks = tasks
            /\ TaskService_delete(tasks, id) =
                   [tasks |-> tasks, ret |-> Some(FALSE), exc |-> "none"]
            /\ LET o == delete_task_route(users, tasks, id)
               IN  o.last.code = 404 /\ o.users = users /\ o.tasks = tasks
            /\ TaskService_mark_completed(tasks, id) =
                   [tasks |-> tasks, ret |-> None, exc |-> "none"]
            /\ LET o == complete_task_route(users, tasks, id)
               IN  o.last.code = 404 /\ o.users = users /\ o.tasks = tasks

\* C6 witness: complete_task asked for an id that no task has, while other
\* tasks are stored, and was answered 404.
C6_Witness ==
    /\ last.op = "complete_task"
    /\ last.code = 404
    /\ last.ret = None
    /\ tasks # {}

\* C7: delete(id) of the user and of the task service returns True exactly
\* when a row with that id existed; after it get_by_id(id) is None, a second
\* delete(id) returns False, and the other rows of the table are unchanged.
C7_DeleteTrueIffExisted ==
    \A id \in Ids :
        /\ LET r == UserService_delete(users, tasks, id)
           IN  /\ (r.ret = Some(TRUE)) <=> UserExists(id)
               /\ (r.ret = Some(FALSE)) <=> ~UserExists(id)
               /\ UserExists(id) =>
                    /\ r.users = {u \in users : u.id # id}
                    /\ UserService_get_by_id(r.users, id) = None
                    /\ UserService_delete(r.users, r.tasks, id).ret = Some(FALSE)
        /\ LET r == TaskService_delete(tasks, id)
           IN  /\ (r.ret = Some(TRUE)) <=> TaskExists(id)
               /\ (r.ret = Some(FALSE)) <=> ~TaskExists(id)
               /\ TaskExists(id) =>
                    /\ r.tasks = {t \in tasks : t.id # id}
                    /\ TaskService_get_by_id(r.tasks, id) = None
                    /\ TaskService_delete(r.tasks, id).ret = Some(FALSE)

\* C8: TaskService.create(fields, owner_id) stores one new task, with status
\* pending and owner_id the argument whatever the fields hold, and
\* returns that stored row with an id no other stored task has.
C8_CreateForcesPendingAndOwner ==
    \A task \in AllTaskCreates, owner_id \in Ids :
        LET r == TaskService_create(tasks, task, owner_id)
        IN  /\ r.exc = "none"
            /\ r.ret # None
            /\ r.tasks = tasks \cup {r.ret[1]}
            /\ ~TaskExists(r.ret[1].id)
            /\ r.ret[1].status = Some("pending")
            /\ r.ret[1].owner_id = Some(owner_id)
            /\ r.ret[1].title = task.title
            /\ r.ret[1].priority = task.priority

\* C8 witness: a task was created with the highest priority beside another task.
C8_Witness ==
    /\ last.op = "create_task"
    /\ last.code = 201
    /\ last.ret[1].priority = Some(MaxPriority)
    /\ last.ret[1].status = Some("pending")
    /\ Cardinality(tasks) = 2

\* C9: create_task with a user_id that no stored user has answers 404 "User
\* not found", does not call TaskService.create and leaves the tasks
\* unchanged; so whenever create_task called TaskService.create, the new
\* task's owner_id is the id of a stored user.
C9_TaskOwnerExistsAtCreation ==
    /\ \A id \in Ids, task \in AllTaskCreates :
        ~UserExists(id) =>
            LET o == create_task_route(users, tasks, id, task)
            IN  /\ o.last.code = 404
                /\ o.last.detail = "User not found"
                /\ ~Called(o, "create")
                /\ o.tasks = tasks
                /\ o.users = users
    /\ (last.op = "create_task" /\ Called([last |-> last], "create")) =>
            /\ last.ret # None
            /\ last.ret[1] \in tasks
            /\ \E u \in users : Some(u.id) = last.ret[1].owner_id

\* C9 witness: create_task for an unknown user was answered 404 while a user
\* and a task were stored.
C9_Witness ==
    /\ last.op = "create_task"
    /\ last.code = 404
    /\ users # {}
    /\ tasks # {}

\* C10: mark_completed(id) on a stored task, whatever its status, leaves it
\* with status completed (its other columns, the modification time aside,
\* as they were) and returns it; a second mark_completed(id) returns the
\* same row and changes nothing.
C10_MarkCompletedAlwaysCompletes ==
    \A t \in tasks :
        LET r == TaskService_mark_completed(tasks, t.id)
            again == TaskService_mark_completed(r.tasks, t.id)
        IN  /\ r.exc = "none"
            /\ r.ret # None
            /\ [r.ret[1] EXCEPT !.updated_at = t.updated_at] =
                    [t EXCEPT !.status = Some("completed")]
            /\ r.tasks = (tasks \ {t}) \cup {r.ret[1]}
            /\ again.exc = "none"
            /\ again.ret = r.ret
            /\ again.tasks = r.tasks

\* C10 witness: complete_task went through while a cancelled task is stored.
C10_Witness ==
    /\ last.op = "complete_task"
    /\ last.code = 200
    /\ last.ret[1].status = Some("completed")
    /\ \E t \in tasks : t.status = Some("cancelled")

\* skip and limit as the service accepts them
AnySkips == (0 - 1)..(MaxTasks + 1)
AnyLimits == (0 - 1)..(MaxTasks + 1)

\* C11: get_by_owner(owner_id, status_filter, skip, limit) returns only
\* stored tasks of that owner, of the filter's status when one is given, and
\* its total is the number of all stored tasks of that owner and status,
\* whatever skip and limit are.
C11_ListOnlyMatchesAndFullTotal ==
    \A owner_id \in Ids, status_filter \in StatusFilters,
       skip \in AnySkips, limit \in AnyLimits :
        \A r \in TaskService_get_by_owner(tasks, owner_id, status_filter, skip, limit) :
            /\ \A i \in 1..Len(r.tasks) :
                /\ r.tasks[i] \in tasks
                /\ r.tasks[i].owner_id = Some(owner_id)
                /\ status_filter # None => r.tasks[i].status = status_filter
            /\ r.total = Cardinality({t \in tasks :
                            /\ t.owner_id = Some(owner_id)
                            /\ status_filter = None \/ t.status = status_filter})

\* C11 witness: the completed tasks of a user were listed one per page, two
\* of them matching: one is returned and the total is 2.
C11_Witness ==
    /\ last.op = "list_user_tasks"
    /\ last.code = 200
    /\ last.args[2] = Some("completed")
    /\ last.args[4] = 1
    /\ Len(last.ret[1].tasks) = 1
    /\ last.ret[1].total = 2

\* C12: the list get_by_owner returned to list_user_tasks is the window
\* [skip, skip + limit) of the owner's matching tasks, newest first: it has
\* min(limit, max(0, matches - skip)) tasks, and no task in it stands before
\* a task created after it (of two stored tasks, the one with the larger id
\* was created later).
C12_ListIsNewestFirstWindow ==
    (last.op = "list_user_tasks" /\ last.code = 200) =>
        LET r       == last.ret[1]
            limit   == last.args[4]
            skip    == (last.args[3] - 1) * limit
            matches == Cardinality({t \in tasks :
                            /\ t.owner_id = Some(last.args[1])
                            /\ last.args[2] = None \/ t.status = last.args[2]})
        IN  /\ Len(r.tasks) = Min(limit, IF matches > skip THEN matches - skip ELSE 0)
            /\ \A i, j \in 1..Len(r.tasks) :
                i < j => r.tasks[i].id > r.tasks[j].id

\* C13: get_stats(owner_id) has exactly the four status keys, each holding
\* the number of stored tasks of that owner with that status, so the four
\* sum to the number of the owner's tasks.
C13_StatsCountOwnersTasks ==
    \A owner_id \in Ids :
        LET stats == TaskService_get_stats(tasks, owner_id)
            owned == {t \in tasks : t.owner_id = Some(owner_id)}
        IN  /\ DOMAIN stats = {"pending", "in_progress", "completed", "cancelled"}
            /\ \A status \in DOMAIN stats :
                stats[status] = Cardinality({t \in owned : t.status = Some(status)})
            /\ stats["pending"] + stats["in_progress"] + stats["completed"]
                    + stats["cancelled"] = Cardinality(owned)

\* C13 witness: get_stats of a user with one task, completed, was asked for
\* while another user's task is stored: completed is 1, pending is 0.
C13_Witness ==
    /\ last.op = "get_stats"
    /\ last.ret[1]["completed"] = 1
    /\ last.ret[1]["pending"] = 0
    /\ \E t \in tasks : t.owner_id # Some(last.args[1])

\* C14: every stored task's priority is an integer from 1 to 5, after any
\* create_task and update_task requests the schemas let through.
C14_PriorityInRange ==
    \A t \in tasks :
        /\ t.priority # None
        /\ t.priority[1] >= MinPriority
        /\ t.priority[1] <= MaxPriority

\* the statuses a stored task may have
StatusOK(T) == \A t \in T : t.status \in Req(Statuses)

\* C15: every stored task's status is one of the four TaskStatus values,
\* never null, and stays so after every create, update (one that supplies
\* status as null included), mark_completed and delete.
C15_StatusAlwaysDefined ==
    /\ StatusOK(tasks)
    /\ \A id \in Ids :
        /\ \A upd \in AllTaskUpdates : StatusOK(TaskService_update(tasks, id, upd).tasks)
        /\ \A task \in AllTaskCreates : StatusOK(TaskService_create(tasks, task, id).tasks)
        /\ StatusOK(TaskService_mark_completed(tasks, id).tasks)
        /\ StatusOK(TaskService_delete(tasks, id).tasks)

\* C15 witness: an update of status and due_date only, supplying status as
\* null, was turned down by the storage and the task kept its status.
C15_Witness ==
    /\ scope = "status"
    /\ last.op = "update_task"
    /\ last.exc = NotNullFailed
    /\ \E t \in tasks : t.status = Some("cancelled")

\* the response `resp` shows neither a password field nor, in any field, one
\* of the values in `secrets` (id and created_at are ints, every other field None or <<v>>)
NoSecretIn(resp, secrets) ==
    /\ DOMAIN resp \cap {"password", "hashed_password"} = {}
    /\ \A f \in DOMAIN resp \ {"id", "created_at"}, x \in secrets : resp[f] # x

\* the passwords and digests of the users in U, and the submitted passwords
SecretsOf(U, submitted) ==
    submitted \cup {u.hashed_password : u \in U}
              \cup {registered[id] : id \in DOMAIN registered}

\* the body of outcome o, a user or a list of users, shows no secret
UserBodyClean(o, submitted) ==
    o.last.body # None =>
        IF o.last.op = "list_users"
        THEN \A i \in 1..Len(o.last.body[1]) :
                NoSecretIn(o.last.body[1][i], SecretsOf(o.users, submitted))
        ELSE NoSecretIn(o.last.body[1], SecretsOf(o.users, submitted))

\* C16: the responses of create_user, get_user, list_users and update_user
\* contain no password and no hashed_password, in any reachable state and
\* for every request.
C16_ResponsesHideThePassword ==
    /\ \A user \in AllUserCreates, salt \in Salts :
        UserBodyClean(create_user_route(users, tasks, user, salt), {user.password})
    /\ \A id \in Ids :
        /\ UserBodyClean(get_user_route(users, tasks, id), {})
        /\ \A upd \in AllUserUpdates :
            UserBodyClean(update_user_route(users, tasks, id, upd), {})
    /\ \A skip \in Skips, limit \in Limits :
        \A o \in list_users_route(users, tasks, skip, limit) : UserBodyClean(o, {})

\* C16 witness: list_users answered with two users, both stored with a
\* digest of their password.
C16_Witness ==
    /\ last.op = "list_users"
    /\ last.code = 200
    /\ Len(last.body[1]) = 2
    /\ \A u \in users : u.hashed_password[3] = registered[u.id][1]

\* client c has a create_user past its pre-checks
Registering(c) == inflight[c] # None /\ inflight[c].op = "create_user"

\* C17: with create_user requests interleaved, no two stored users share an
\* email or a username; the write of a request that passed its pre-checks
\* and whose email or username has been taken since ends in the storage's
\* unique failure (500, not the 400 conflict) and stores nothing; and of two
\* such requests with the same email or username, once one has committed
\* the other fails.
C17_InterleavedSignupsStayUnique ==
    /\ \A u, v \in users : (u.email = v.email \/ u.username = v.username) => u = v
    /\ \A c \in Clients : Registering(c) =>
        LET user == inflight[c].user
            o    == create_user_write(users, tasks, user, inflight[c].salt)
        IN  IF EmailTaken(user.email) \/ UsernameTaken(user.username)
            THEN /\ o.last.code = 500
                 /\ o.last.exc = UniqueFailed
                 /\ o.users = users
            ELSE /\ o.last.code = 201
                 /\ Cardinality(o.users) = Cardinality(users) + 1
                 /\ \A d \in Clients \ {c} :
                        (/\ Registering(d)
                         /\ \/ inflight[d].user.email = user.email
                            \/ inflight[d].user.username = user.username) =>
                            LET o2 == create_user_write(o.users, o.tasks,
                                          inflight[d].user, inflight[d].salt)
                            IN  /\ o2.last.code = 500
                                /\ o2.last.exc = UniqueFailed
                                /\ o2.users = o.users

\* C17 witness: a create_user that had passed both pre-checks called
\* UserService.create after another request took its username, and ended in
\* the unique failure with one user stored.
C17_Witness ==
    /\ last.op = "create_user_end"
    /\ last.code = 500
    /\ last.exc = UniqueFailed
    /\ Called([last |-> last], "create")
    /\ Cardinality(users) = 1

\* C18: no stored task has an owner_id that no stored user has, also when
\* create_task is interleaved with delete_user.
C18_NoOrphanTask ==
    \A t \in tasks : \E u \in users : t.owner_id = Some(u.id)

\* C19: delete(id) of a user who owns tasks does not fail: it returns True
\* and removes the user, and each of the user's tasks is then either
\* removed or still stored.
C19_DeleteUserWithTasksSucceeds ==
    \A u \in users :
        (\E t \in tasks : t.owner_id = Some(u.id)) =>
            LET r == UserService_delete(users, tasks, u.id)
            IN  /\ r.exc = "none"
                /\ r.ret = Some(TRUE)
                /\ r.users = users \ {u}
                /\ \A t \in tasks : t.owner_id = Some(u.id) =>
                        \/ \A s \in r.tasks : s.id # t.id
                        \/ \E s \in r.tasks : s.id = t.id

\* no update and no mark_completed of a stored task returns or stores it
\* with another owner_id
OwnerKeptByWrites ==
    \A t \in tasks :
        /\ \A upd \in AllTaskUpdates :
            LET r == TaskService_update(tasks, t.id, upd)
            IN  /\ r.ret # None => r.ret[1].owner_id = t.owner_id
                /\ \A s \in r.tasks : s.id = t.id => s.owner_id = t.owner_id
        /\ LET r == TaskService_mark_completed(tasks, t.id)
           IN  /\ r.ret # None => r.ret[1].owner_id = t.owner_id
               /\ \A s \in r.tasks : s.id = t.id => s.owner_id = t.owner_id

\* a task stored before and after a step has the same owner_id
OwnerKeptByStep ==
    \A t \in tasks : \A s \in tasks' : s.id = t.id => s.owner_id = t.owner_id

\* C20: a task's owner_id never changes after its creation: no update and
\* no mark_completed changes it, and no request on any record, user or
\* task, changes the owner_id of a task that stays stored.
C20_OwnerNeverChanges == []OwnerKeptByWrites /\ [][OwnerKeptByStep]_vars

\* C20 witness: complete_task went through on one of two tasks that belong
\* to two users, each task with the owner it was created for.
C20_Witness ==
    /\ last.op = "complete_task"
    /\ last.code = 200
    /\ Cardinality({t.owner_id : t \in tasks}) = 2
    /\ \A t \in tasks : \E u \in users : t.owner_id = Some(u.id)

\* TaskUpdate(status=s): the partial update that supplies the status only
StatusUpdate(s) ==
    [set |-> {"status"}, title |-> None, description |-> None,
     status |-> Some(s), priority |-> None, due_date |-> None]

\* from every stored task, whatever its status, one update reaches each of
\* the four statuses, and mark_completed reaches completed
AnyStatusByUpdate ==
    \A t \in tasks :
        /\ \A s \in Statuses :
            LET r == TaskService_update(tasks, t.id, StatusUpdate(s))
            IN  /\ r.exc = "none"
                /\ r.ret # None
                /\ r.ret[1].status = Some(s)
                /\ \E x \in r.tasks : x.id = t.id /\ x.status = Some(s)
        /\ LET r == TaskService_mark_completed(tasks, t.id)
           IN  /\ r.exc = "none"
               /\ r.ret # None
               /\ r.ret[1].status = Some("completed")
               /\ \E x \in r.tasks : x.id = t.id /\ x.status = Some("completed")

\* an update_task request that supplies a status for a stored task leaves
\* the task in that status; a complete_task request leaves it completed
AnyStatusByStep ==
    /\ /\ last'.op = "update_task"
       /\ TaskExists(last'.args[1])
       /\ "status" \in last'.args[2].set
       /\ last'.args[2].status # None
       => \E x \in tasks' : x.id = last'.args[1] /\ x.status = last'.args[2].status
    /\ /\ last'.op = "complete_task"
       /\ last'.code = 200
       => \E x \in tasks' : x.id = last'.ret[1].id /\ x.status = Some("completed")

\* C21: Task.status has no enforced transition graph: for every pair of
\* statuses (s, t), one TaskService.update that supplies t on a stored task
\* in status s succeeds and leaves the task in t; of the operations on a
\* stored task, mark_completed is the one whose target status is fixed
\* (completed), while the target of update is the status it is given.
C21_AnyStatusFromAnyStatus == []AnyStatusByUpdate /\ [][AnyStatusByStep]_vars

\* C21 witness: an update took a task back to pending while the other task
\* stands in cancelled, a status only an update leads to.
C21_Witness ==
    /\ last.op = "update_task"
    /\ last.code = 200
    /\ last.args[2] = StatusUpdate("pending")
    /\ \E t \in tasks : t.id = last.args[1] /\ t.status = Some("pending")
    /\ \E t \in tasks : t.id # last.args[1] /\ t.status = Some("cancelled")

\* an update or a mark_completed of a stored record that returns it, returns
\* it and leaves it stored with updated_at at the clock of the call
StampedByWrites ==
    /\ \A t \in tasks :
        /\ \A upd \in AllTaskUpdates :
            LET r == TaskService_update(tasks, t.id, upd)
            IN  r.ret # None =>
                    /\ r.ret[1].updated_at = Some(now)
                    /\ \E x \in r.tasks : x.id = t.id /\ x.updated_at = Some(now)
        /\ LET r == TaskService_mark_completed(tasks, t.id)
           IN  r.ret # None =>
                    /\ r.ret[1].updated_at = Some(now)
                    /\ \E x \in r.tasks : x.id = t.id /\ x.updated_at = Some(now)
    /\ \A u \in users : \A upd \in AllUserUpdates :
            LET r == UserService_update(users, u.id, upd)
            IN  r.ret # None =>
                    /\ r.ret[1].updated_at = Some(now)
                    /\ \E x \in r.users : x.id = u.id /\ x.updated_at = Some(now)

\* a request that went through an update or a mark_completed of a stored
\* record returned it, and left it stored, with updated_at at the clock of
\* the request
StampedAtTheCall ==
    /\ /\ last.op \in {"update_task", "complete_task"}
       /\ last.code = 200
       => /\ last.ret[1].updated_at = Some(last.at)
          /\ \E x \in tasks : x.id = last.ret[1].id /\ x.updated_at = Some(last.at)
    /\ /\ last.op = "update_user"
       /\ last.code = 200
       => /\ last.ret[1].updated_at = Some(last.at)
          /\ \E x \in users : x.id = last.ret[1].id /\ x.updated_at = Some(last.at)

\* a record stored before and after a step keeps its created_at
CreatedAtKeptByStep ==
    /\ \A t \in tasks : \A x \in tasks' : x.id = t.id => x.created_at = t.created_at
    /\ \A u \in users : \A x \in users' : x.id = u.id => x.created_at = u.created_at

\* C22: every update of a stored user or task, and every mark_completed of a
\* stored task, sets the record's updated_at to the time of the call, and
\* created_at is set at creation and never changes afterwards.
C22_EveryWriteStampsTheRecord ==
    /\ []StampedByWrites
    /\ []StampedAtTheCall
    /\ [][CreatedAtKeptByStep]_vars

\* the row `new` is `old` but for its status and its modification time
OnlyStatusChanged(old, new) ==
    [new EXCEPT !.status = old.status, !.updated_at = old.updated_at] = old

\* the table T2 holds the rows of T, the row of task_id changed in its status
\* and modification time at most, and no other row
OnlyStatusOf(T, task_id, T2) ==
    /\ \A t \in T : IF t.id = task_id
                    THEN \E x \in T2 : OnlyStatusChanged(t, x)
                    ELSE t \in T2
    /\ {x.id : x \in T2} = {t.id : t \in T}
    /\ Cardinality(T2) = Cardinality(T)

\* mark_completed(id), for every id, changes the status and modification
\* time of the task with that id at most
CompletionFrameByCall ==
    \A id \in Ids :
        LET r == TaskService_mark_completed(tasks, id)
        IN  /\ OnlyStatusOf(tasks, id, r.tasks)
            /\ r.ret # None => \E t \in tasks : t.id = id /\ OnlyStatusChanged(t, r.ret[1])

\* a complete_task request leaves the users as they were and changes the
\* status and modification time of its task at most (last.ret is the row
\* mark_completed returned, None when it found none)
CompletionFrameByStep ==
    last'.op = "complete_task" =>
        /\ users' = users
        /\ IF last'.ret # None
           THEN OnlyStatusOf(tasks, last'.ret[1].id, tasks')
           ELSE tasks' = tasks

\* C23: mark_completed(id) changes nothing but the status (and modification
\* time) of the task with that id: its title, description, priority,
\* due_date and owner_id, every other task and every user stay as they were.
C23_MarkCompletedChangesStatusOnly ==
    []CompletionFrameByCall /\ [][CompletionFrameByStep]_vars

\* C23 witness: complete_task went through on a task that has a due date
\* and kept it, while the other stored task is not completed.
C23_Witness ==
    /\ last.op = "complete_task"
    /\ last.code = 200
    /\ last.ret[1].due_date # None
    /\ \E t \in tasks : /\ t.id = last.ret[1].id
                        /\ t.status = Some("completed")
                        /\ t.due_date = last.ret[1].due_date
    /\ \E t \in tasks : t.id # last.ret[1].id /\ t.status # Some("completed")
    /\ users # {}

\* the writes of `calls`
WriteCalls(calls) ==
    {i \in DOMAIN calls : calls[i] \in {"create", "update", "delete", "mark_completed"}}

\* a write the storage turns down (a unique or a not-null violation at the
\* commit of create, update or delete) raises the integrity error, returns
\* nothing and leaves the tables as they were
RejectedWriteRaises ==
    /\ \A user \in AllUserCreates, salt \in Salts :
        LET r == UserService_create(users, user, salt)
        IN  EmailTaken(user.email) \/ UsernameTaken(user.username) =>
                /\ r.exc = UniqueFailed
                /\ r.ret = None
                /\ r.users = users
    /\ \A u \in users, upd \in AllUserUpdates :
        LET r == UserService_update(users, u.id, upd)
        IN  UserWriteRejected(u, upd) =>
                /\ r.exc \in IntegrityErrors
                /\ r.ret = None
                /\ r.users = users
    /\ \A t \in tasks, upd \in AllTaskUpdates :
        LET r == TaskService_update(tasks, t.id, upd)
        IN  TaskWriteRejected(t, upd) =>
                /\ r.exc = NotNullFailed
                /\ r.ret = None
                /\ r.tasks = tasks
    /\ \A u \in users :
        LET r == UserService_delete(users, tasks, u.id)
        IN  (\E t \in tasks : t.owner_id = Some(u.id)) =>
                /\ r.exc = NotNullFailed
                /\ r.ret = None
                /\ r.users = users
                /\ r.tasks = tasks

\* a request whose write raised answers 500 with no body, after one attempt
\* at the write, and the tables are as they were before it
RejectedWriteByStep ==
    /\ last'.exc \in IntegrityErrors
    /\ now' = now
    => /\ last'.code = 500
       /\ last'.body = None
       /\ last'.ret = None
       /\ Cardinality(WriteCalls(last'.calls)) = 1
       /\ users' = users
       /\ tasks' = tasks

\* C24: when the storage rejects a write (a unique or not-null violation at
\* the commit of a create, an update or a delete), the failure reaches the
\* caller as a failure, not as an absent or a success result, the write is
\* not tried again, and the stored users and tasks are those of before.
C24_StorageFailureSurfaces == []RejectedWriteRaises /\ [][RejectedWriteByStep]_vars

\* C24 witness: an update that supplies a user's email as null was turned
\* down by the storage and answered 500, the user keeping its email.
C24_Witness ==
    /\ last.op = "update_user"
    /\ last.exc = NotNullFailed
    /\ last.code = 500
    /\ users # {}
    /\ \A u \in users : u.email # None

\* no two rows of the table share an id
IdsUniqueIn(table) == \A a, b \in table : a.id = b.id => a = b

\* ids are unique among the stored users and among the stored tasks, the id
\* the storage hands out next is held by no stored row, and every create
\* that succeeds returns a row whose id no other row of the table has and
\* that get_by_id finds under that id
IdsUniqueByCreate ==
    /\ IdsUniqueIn(users)
    /\ IdsUniqueIn(tasks)
    /\ \A u \in users : UserService_get_by_id(users, u.id) = Some(u)
    /\ \A t \in tasks : TaskService_get_by_id(tasks, t.id) = Some(t)
    /\ \A u \in users : u.id # NextId(users)
    /\ \A t \in tasks : t.id # NextId(tasks)
    /\ \A user \in AllUserCreates, salt \in Salts :
        LET r == UserService_create(users, user, salt)
        IN  r.ret # None =>
                /\ \A u \in users : u.id # r.ret[1].id
                /\ \A x \in r.users \ {r.ret[1]} : x.id # r.ret[1].id
                /\ UserService_get_by_id(r.users, r.ret[1].id) = r.ret
    /\ \A task \in AllTaskCreates, owner_id \in Ids :
        LET r == TaskService_create(tasks, task, owner_id)
        IN  r.ret # None =>
                /\ \A t \in tasks : t.id # r.ret[1].id
                /\ \A x \in r.tasks \ {r.ret[1]} : x.id # r.ret[1].id
                /\ TaskService_get_by_id(r.tasks, r.ret[1].id) = r.ret

\* a row stored before a step is, after it, deleted or found by get_by_id
\* under its id as the same record: created at the same time, for the same
\* owner (a task), with the same digest (a user)
SameRecordByStep ==
    /\ \A u \in users :
        LET found == UserService_get_by_id(users', u.id)
        IN  found # None =>
                /\ found[1].created_at = u.created_at
                /\ found[1].hashed_password = u.hashed_password
    /\ \A t \in tasks :
        LET found == TaskService_get_by_id(tasks', t.id)
        IN  found # None =>
                /\ found[1].created_at = t.created_at
                /\ found[1].owner_id = t.owner_id

\* C25: ids are unique within users and within tasks in every reachable
\* state: every create that succeeds returns a record whose id no other
\* stored record of its type has, and get_by_id(id) returns that record
\* until it is deleted.
C25_IdsAreUnique == []IdsUniqueByCreate /\ [][SameRecordByStep]_vars

\* C25 witness: a task was created beside a stored task of the same user
\* and got another id than it.
C25_Witness ==
    /\ last.op = "create_task"
    /\ last.code = 201
    /\ Cardinality(tasks) = 2
    /\ Cardinality({t.id : t \in tasks}) = 2
    /\ last.ret[1] \in tasks
    /\ \A t \in tasks : t.owner_id = last.ret[1].owner_id

====
